---- MODULE Spec2Model ----
(***************************************************************************)
(* Mapping Resolution Engine of servio_ocr_invoices.                       *)
(*                                                                         *)
(* Two programs share the engine: the interactive command line program     *)
(* (cli.py, on the store of core_mapper.py: one file, DB_FILE) and the     *)
(* Flask server (app.py, on the customer-scoped store it calls with a      *)
(* customer_id).  A behaviour is the life of one of the two programs; the  *)
(* variable program says which.                                            *)
(*                                                                         *)
(* The customer-scoped store functions app.py calls                        *)
(* (load_customer_list, initialize_customer_files and the three-argument   *)
(* load/save of confirmed mappings) are not in core_mapper.py as it        *)
(* stands; they are modelled from sections 4.1 and 4.2 of the              *)
(* specification and are marked so in the comments.                        *)
(***************************************************************************)
EXTENDS Integers, Sequences, FiniteSets, TLC

\* ------------------------------------------------------------------ bounds
\* Longest model output (mapped_items) of one run.
MaxItems == 2
\* Number of entries of RESTAURANT_MENU the model keeps.
MenuSize == 2

\* ------------------------------------------------------------- value space
\* Python None / JSON null ("confirmed no match").
NULL == "<null>"

\* core_mapper.py:33
DB_FILE == "confirmed_mappings.json"

\* core_mapper.py:38-43 (the 13th entry, a non-ASCII string, is left out: the
\* model never keeps more than MenuSize entries).
MENU_SOURCE ==
  << "Margherita Pizza", "Pepperoni Pizza", "Caesar Salad", "Greek Salad",
     "Spaghetti Carbonara", "Fettuccine Alfredo", "Tomato Soup",
     "Chicken Wings", "Garlic Bread", "Tiramisu", "Cheesecake", "Newland" >>

RESTAURANT_MENU == SubSeq(MENU_SOURCE, 1, MenuSize)

\* Invoice-item texts a completion may name: two strings that differ in case
\* only, and are different keys of the memory.
InvoiceTexts == {"Tomatoes (5kg)", "tomatoes (5kg)"}

\* str.lower() on the invoice-item texts above.
CaseFold(k) == IF k = "Tomatoes (5kg)" THEN "tomatoes (5kg)" ELSE k

\* What the model may propose for an item: a menu dish or null.
ModelSuggestions == {RESTAURANT_MENU[1], NULL}

\* Customers of the server; "" is a request without customer_id.
Customers == {"A", "B"}

\* One file for every customer.
CustomerDbShared(c) == DB_FILE

\* The file holding a customer's MappingMemory (specification 3: each
\* customer owns its own memory; app.py passes customer_id to every store
\* call).

CustomerDbPath(c) == "mappings_" \o c

Paths == {DB_FILE} \cup {"mappings_" \o c : c \in Customers}

\* list_item values a confirm-mapping request may carry.
ListItemInputs == {"Tiramisu", NULL}

\* JSON documents a list upload may carry: a non-list root, lists of strings,
\* and a list holding a non-string element.
JStr(s) == [t |-> "str", v |-> s]

JNum(s) == [t |-> "num", v |-> s]

UploadInputs ==
  { [root |-> "object", elems |-> << >>],
    [root |-> "list", elems |-> << >>],
    [root |-> "list", elems |-> << JStr("Cheesecake") >>],
    [root |-> "list", elems |-> << JStr("Cheesecake"), JStr("Tiramisu") >>],
    [root |-> "list", elems |-> << JNum("42") >>] }

\* ------------------------------------------------------------------- state
VARIABLES
  program,               \* "cli" | "api": which program this behaviour runs
  files,                 \* path -> state of the mapping file at that path
  lists,                 \* customer -> stored reference list
  pc,                    \* position of the program
  confirmed_mappings,    \* memory loaded for the run (main / process_invoice)
  mapping_response,      \* mapped_items as the validator produced them
  auto_confirmed_items,  \* run output
  items_to_review,       \* run output
  idx,                   \* confirmation loop: position in items_to_review
  last_decision,         \* the most recent decision applied, and its outcome
  resp,                  \* what the caller saw last (status / console line)
  calls,                 \* server: collaborator calls made for the request
  upload_content,        \* server: the JSON value of the upload being answered
  response_text,         \* the completion text handed to _parse_response
  handled,               \* confirmation loop: the items left so far, in order
  pending_saves,         \* confirmation loop: saves made for the current item
  workers,               \* concurrent confirm_mapping requests in progress
  events                 \* the order of their reads and writes of the store

\* What the requests of the server add to the state.
request_vars == << calls, upload_content >>

\* What only the studies of parsing, of the loop and of concurrency use.
study_vars == << response_text, handled, pending_saves, workers, events >>

vars ==
  << program, files, lists, pc, confirmed_mappings, mapping_response,
     auto_confirmed_items, items_to_review, idx, last_decision, resp,
     calls, upload_content, response_text, handled, pending_saves,
     workers, events >>

EmptyMap == [x \in {} |-> NULL]

AbsentFile == [st |-> "absent", data |-> EmptyMap]

CorruptFile == [st |-> "corrupt", data |-> EmptyMap]

OkFile(m) == [st |-> "ok", data |-> m]

NoList == [exists |-> FALSE, items |-> << >>]

NoDecision ==
  [kind |-> "none", path |-> "", k |-> "", v |-> NULL, reported |-> "none"]

Decision(kind, path, k, v, reported) ==
  [kind |-> kind, path |-> path, k |-> k, v |-> v, reported |-> reported]

Resp(op, status, c) == [op |-> op, status |-> status, customer_id |-> c]

MappedItem(k, s) == [invoice_item |-> k, suggested_item |-> s]

NoCalls == [ocr |-> 0, llm |-> 0]

NoContent == [root |-> "none", elems |-> << >>]

JMissing == [t |-> "missing", v |-> ""]

JNull == [t |-> "null", v |-> ""]

NoText == [fence |-> "none", doc |-> [kind |-> "none", mapped_items |-> << >>]]

NoWorker == [pc |-> "none", c |-> "", k |-> "", v |-> NULL, mappings |-> << >>, status |-> "none"]

\* Every validated model output of at most MaxItems items.
RECURSIVE SeqsUpTo(_, _)
SeqsUpTo(S, n) ==
  IF n = 0 THEN { << >> }
  ELSE LET shorter == SeqsUpTo(S, n - 1)
       IN  shorter \cup { Append(s, x) : s \in { t \in shorter : Len(t) = n - 1 }, x \in S }

MappedItems == { MappedItem(k, s) : k \in InvoiceTexts, s \in ModelSuggestions }

LlmFailed == [ok |-> FALSE, mapped_items |-> << >>]

\* Outcome of call_openai_for_mapping: the call or the parse raises, or a
\* validated InvoiceMappingResponse is returned.
LlmOutcomes ==
  { LlmFailed }
    \cup { [ok |-> TRUE, mapped_items |-> s] : s \in SeqsUpTo(MappedItems, MaxItems) }

\* What the collaborators of one run do: whether the read of the memory file
\* raises, whether OCR succeeds and, when it does, what the LLM call gives
\* (the LLM is not called after a failed OCR).
RunInputs ==
  { [ioerr |-> e, ocr_ok |-> FALSE, llm |-> LlmFailed] : e \in BOOLEAN }
    \cup { [ioerr |-> e, ocr_ok |-> TRUE, llm |-> l] : e \in BOOLEAN, l \in LlmOutcomes }

\* A request without customer_id is refused before any collaborator is used.
RequestInputs(c, Runs) ==
  IF c = "" THEN { [ioerr |-> FALSE, ocr_ok |-> FALSE, llm |-> LlmFailed] } ELSE Runs

\* The same with a file system and collaborators that work, except that OCR
\* and the LLM may still fail a run.
ReliableRunInputs == { r \in RunInputs : ~r.ioerr }

\* -------------------------------------------------- core_mapper.py: store
\* load_confirmed_mappings: {} when the file is absent, and also when the
\* read raises IOError (ioerr) or the content is not JSON.
load_confirmed_mappings(file, ioerr) ==
  IF file.st = "absent" THEN EmptyMap
  ELSE IF ioerr \/ file.st = "corrupt" THEN EmptyMap
  ELSE file.data

\* An empty persisted record written where none exists.
DbFileMaterialized(file) == IF file.st = "absent" THEN OkFile(EmptyMap) ELSE file

\* load_confirmed_mappings only reads: the file is as it was.
DbFileAfterLoad(file) == file

\* mappings[invoice_item] = menu_item
Upsert(m, k, v) == [x \in DOMAIN m \cup {k} |-> IF x = k THEN v ELSE m[x]]

WriteOutcomes == {"ok", "open_fails", "write_fails"}

\* What the file system does during one save: whether the read raises and
\* how the write ends (the read's outcome shows only when the write succeeds).
IoOutcomes ==
  { [ioerr |-> e, wr |-> "ok"] : e \in BOOLEAN }
    \cup { [ioerr |-> FALSE, wr |-> w] : w \in WriteOutcomes \ {"ok"} }

ReliableIoOutcomes == { [ioerr |-> FALSE, wr |-> "ok"] }

\* save_confirmed_mapping: load, upsert, rewrite the whole file.  open(.., "w")
\* may raise (file untouched) or the dump may raise after the truncation
\* (file left without valid JSON); both IOErrors are logged and swallowed.
save_confirmed_mapping(file, k, v, ioerr, wr) ==
  LET mappings == Upsert(load_confirmed_mappings(file, ioerr), k, v)
  IN  IF wr = "ok" THEN OkFile(mappings)
      ELSE IF wr = "open_fails" THEN DbFileAfterLoad(file)
      ELSE CorruptFile

\* ------------------------------------------------ reconciliation (shared)
\* The partition loop without the override of the suggestion.
RECURSIVE filter_results_no_override(_, _, _, _)
filter_results_no_override(items, mem, auto, review) ==
  IF items = << >> THEN [auto |-> auto, review |-> review]
  ELSE LET item == Head(items)
       IN  IF item.invoice_item \in DOMAIN mem
           THEN filter_results_no_override(Tail(items), mem, Append(auto, item), review)
           ELSE filter_results_no_override(Tail(items), mem, auto, Append(review, item))

\* The partition loop with a lookup that ignores case.
RECURSIVE filter_results_casefold(_, _, _, _)
filter_results_casefold(items, mem, auto, review) ==
  IF items = << >> THEN [auto |-> auto, review |-> review]
  ELSE LET item == Head(items)
           hits == { m \in DOMAIN mem : CaseFold(m) = CaseFold(item.invoice_item) }
       IN  IF hits # {}
           THEN LET m == IF item.invoice_item \in hits THEN item.invoice_item
                         ELSE CHOOSE h \in hits : TRUE
                IN  filter_results_casefold(Tail(items), mem,
                      Append(auto, [item EXCEPT !.suggested_item = mem[m]]), review)
           ELSE filter_results_casefold(Tail(items), mem, auto, Append(review, item))

\* The partition loop putting each item at the front of its output list.
RECURSIVE filter_results_prepend(_, _, _, _)
filter_results_prepend(items, mem, auto, review) ==
  IF items = << >> THEN [auto |-> auto, review |-> review]
  ELSE LET item == Head(items)
       IN  IF item.invoice_item \in DOMAIN mem
           THEN filter_results_prepend(Tail(items), mem,
                  << [item EXCEPT !.suggested_item = mem[item.invoice_item]] >> \o auto, review)
           ELSE filter_results_prepend(Tail(items), mem, auto, << item >> \o review)

\* cli.py:127-136 and app.py:132-142: the partition loop.
RECURSIVE filter_results(_, _, _, _)
filter_results(items, mem, auto, review) ==
  IF items = << >> THEN [auto |-> auto, review |-> review]
  ELSE LET item == Head(items)
       IN  IF item.invoice_item \in DOMAIN mem
           THEN filter_results(Tail(items), mem,
                  Append(auto, [item EXCEPT !.suggested_item = mem[item.invoice_item]]),
                  review)
           ELSE filter_results(Tail(items), mem, auto, Append(review, item))

Init ==
  /\ program \in {"cli", "api"}
  /\ files = [p \in Paths |-> AbsentFile]
  /\ lists = [c \in Customers |-> NoList]
  /\ pc = IF program = "cli" THEN "ready" ELSE "serving"
  /\ confirmed_mappings = EmptyMap
  /\ mapping_response = << >>
  /\ auto_confirmed_items = << >>
  /\ items_to_review = << >>
  /\ idx = 0
  /\ last_decision = NoDecision
  /\ resp = Resp("none", "none", "")
  /\ calls = NoCalls
  /\ upload_content = NoContent
  /\ response_text = NoText
  /\ handled = << >>
  /\ pending_saves = 0
  /\ workers = << NoWorker, NoWorker >>
  /\ events = << >>

ClearRun ==
  /\ confirmed_mappings' = EmptyMap
  /\ mapping_response' = << >>
  /\ auto_confirmed_items' = << >>
  /\ items_to_review' = << >>
  /\ idx' = 0

\* ------------------------------------------------------------ cli.py: main
\* main, lines 113-136 and the except clause 162-165: load the memory, OCR,
\* LLM, partition.  Any exception ends the process (sys.exit(1)).
main(ioerr, ocr_ok, llm) ==
  /\ program = "cli"
  /\ pc = "ready"
  /\ files' = [files EXCEPT ![DB_FILE] = DbFileAfterLoad(@)]
  /\ IF ocr_ok /\ llm.ok
     THEN LET mem == load_confirmed_mappings(files[DB_FILE], ioerr)
              parts == filter_results(llm.mapped_items, mem, << >>, << >>)
          IN  /\ confirmed_mappings' = mem
              /\ mapping_response' = llm.mapped_items
              /\ auto_confirmed_items' = parts.auto
              /\ items_to_review' = parts.review
              /\ idx' = 0
              /\ pc' = "classified"
              /\ resp' = Resp("main", "classified", "")
     ELSE /\ ClearRun
          /\ pc' = "ready"
          /\ resp' = Resp("main", "failed", "")
  /\ UNCHANGED << program, lists, last_decision >>

\* main, lines 138-160: show the tables; enter the confirmation loop when
\* there is something to review, otherwise the process completes.
main_display ==
  /\ program = "cli"
  /\ pc = "classified"
  /\ IF items_to_review # << >>
     THEN /\ pc' = "ask"
          /\ idx' = 1
          /\ resp' = Resp("main", "review", "")
          /\ UNCHANGED << confirmed_mappings, mapping_response,
                          auto_confirmed_items, items_to_review >>
     ELSE /\ ClearRun
          /\ pc' = "ready"
          /\ resp' = Resp("main", "complete", "")
  /\ UNCHANGED << program, files, lists, last_decision >>

\* ------------------------------------- cli.py: handle_user_confirmation_loop
\* A loop that asks about the same item again.
NextItemAgain(status) ==
  /\ idx' = idx
  /\ pc' = "ask"
  /\ resp' = Resp("loop", status, "")
  /\ UNCHANGED << confirmed_mappings, mapping_response,
                  auto_confirmed_items, items_to_review >>

\* The for loop moves to the next item, or main prints "Process complete."
\* and the process ends.
NextItem(status) ==
  IF idx < Len(items_to_review)
  THEN /\ idx' = idx + 1
       /\ pc' = "ask"
       /\ resp' = Resp("loop", status, "")
       /\ UNCHANGED << confirmed_mappings, mapping_response,
                       auto_confirmed_items, items_to_review >>
  ELSE /\ ClearRun
       /\ pc' = "ready"
       /\ resp' = Resp("main", "complete", "")

\* action == "c", lines 69-71.
loop_confirm(ioerr, wr) ==
  /\ program = "cli"
  /\ pc = "ask"
  /\ LET item == items_to_review[idx]
     IN  /\ files' = [files EXCEPT ![DB_FILE] =
                        save_confirmed_mapping(@, item.invoice_item,
                                               item.suggested_item, ioerr, wr)]
         /\ last_decision' = Decision("Confirm", DB_FILE, item.invoice_item,
                                      item.suggested_item, "saved")
  /\ NextItem("saved")
  /\ UNCHANGED << program, lists >>

\* action == "r", lines 72-77: the menu is listed and a choice is asked for.
loop_reject ==
  /\ program = "cli"
  /\ pc = "ask"
  /\ pc' = "select"
  /\ resp' = Resp("loop", "select", "")
  /\ UNCHANGED << program, files, lists, confirmed_mappings, mapping_response,
                  auto_confirmed_items, items_to_review, idx, last_decision >>

\* A skip that memorizes the suggestion all the same.
loop_skip_saving ==
  /\ program = "cli"
  /\ pc = "ask"
  /\ LET item == items_to_review[idx]
     IN  /\ files' = [files EXCEPT ![DB_FILE] =
                        save_confirmed_mapping(@, item.invoice_item,
                                               item.suggested_item, FALSE, "ok")]
         /\ last_decision' = Decision("Skip", DB_FILE, item.invoice_item,
                                      item.suggested_item, "skipped")
  /\ NextItem("skipped")
  /\ UNCHANGED << program, lists >>

\* action == "s", lines 96-97.
loop_skip ==
  /\ program = "cli"
  /\ pc = "ask"
  /\ LET item == items_to_review[idx]
     IN  last_decision' = Decision("Skip", DB_FILE, item.invoice_item,
                                   item.suggested_item, "skipped")
  /\ NextItem("skipped")
  /\ UNCHANGED << program, files, lists >>

\* What the user may type at "Enter the number (or 'n' for no match)".
ChoiceNumbers == -1 .. MenuSize

Choices == {"n", "N", "x"} \cup { ToString(i) : i \in ChoiceNumbers }

\* str.lower() on the inputs above.
Lower(s) == IF s = "N" THEN "n" ELSE s

\* int(choice): defined on the decimal numerals, ValueError otherwise.
IsInt(s) == \E i \in ChoiceNumbers : ToString(i) = s

ParseInt(s) == CHOOSE i \in ChoiceNumbers : ToString(i) = s

\* 0 <= choice_idx < len(menu_options), line 87.
ValidIndex(i) == 0 <= i /\ i < Len(RESTAURANT_MENU)

\* The inner while loop, lines 79-95: one answer to the prompt.
loop_select(answer, ioerr, wr) ==
  /\ program = "cli"
  /\ pc = "select"
  /\ LET item == items_to_review[idx]
         choice == Lower(answer)
     IN  IF choice = "n"
         THEN /\ files' = [files EXCEPT ![DB_FILE] =
                             save_confirmed_mapping(@, item.invoice_item, NULL, ioerr, wr)]
              /\ last_decision' = Decision("NoMatch", DB_FILE, item.invoice_item,
                                           NULL, "saved")
              /\ NextItem("saved")
         ELSE IF IsInt(choice) /\ ValidIndex(ParseInt(choice))
         THEN LET correct_menu_item == RESTAURANT_MENU[ParseInt(choice) + 1]
              IN  /\ files' = [files EXCEPT ![DB_FILE] =
                                 save_confirmed_mapping(@, item.invoice_item,
                                                        correct_menu_item, ioerr, wr)]
                  /\ last_decision' = Decision("Correct", DB_FILE, item.invoice_item,
                                               correct_menu_item, "saved")
                  /\ NextItem("saved")
         ELSE /\ last_decision' = Decision("Retry", DB_FILE, item.invoice_item,
                                           NULL, "retry")
              /\ resp' = Resp("loop", "retry", "")
              /\ UNCHANGED << files, pc, idx, confirmed_mappings, mapping_response,
                              auto_confirmed_items, items_to_review >>
  /\ UNCHANGED << program, lists >>

\* --------------------------------- customer-scoped store (from the spec)
\* Specification 4.2, load: the stored list, empty if never uploaded.
load_customer_list(c) == IF lists[c].exists THEN lists[c].items ELSE << >>

\* Specification 4.2, replace: a flat sequence of strings, or InvalidList.
IsStringList(elems) == \A i \in 1 .. Len(elems) : elems[i].t = "str"

StringsOf(elems) == [i \in 1 .. Len(elems) |-> elems[i].v]

\* Specification 4.1, load: the persisted mapping, or an empty mapping, which
\* it then materializes as an empty persisted record; a read failure is
\* reported to the caller.
customer_load_confirmed_mappings(file, ioerr) ==
  IF file.st = "absent"
  THEN [ok |-> TRUE, mem |-> EmptyMap, file |-> OkFile(EmptyMap)]
  ELSE IF ioerr \/ file.st = "corrupt"
  THEN [ok |-> FALSE, mem |-> EmptyMap, file |-> file]
  ELSE [ok |-> TRUE, mem |-> file.data, file |-> file]

\* Specification 4.1, save_one: load, upsert one key, persist the whole memory
\* as a unit; an I/O failure is reported and leaves the record as it was.
customer_save_confirmed_mapping(file, k, v, ioerr, wr) ==
  LET loaded == customer_load_confirmed_mappings(file, ioerr)
  IN  IF ~loaded.ok THEN [ok |-> FALSE, file |-> file]
      ELSE IF wr # "ok" THEN [ok |-> FALSE, file |-> loaded.file]
      ELSE [ok |-> TRUE, file |-> OkFile(Upsert(loaded.mem, k, v))]

\* An initialization that starts the mapping memory afresh.
initialize_customer_reset(file) == OkFile(EmptyMap)

\* Specification 4.2 and 3: the list is overwritten as a whole; the mapping
\* memory is created empty when there is none and is otherwise left alone.

initialize_customer_files(file) ==
  IF file.st = "absent" THEN OkFile(EmptyMap) ELSE file

\* --------------------------------------------------------- app.py: server
\* An upload handler that hands any JSON value to the store.
upload_list_any_root(c, content) ==
  /\ program = "api"
  /\ pc = "serving"
  /\ pc' = "responded"
  /\ IF c = ""
     THEN /\ resp' = Resp("upload_list", "400", c)
          /\ UNCHANGED << lists, files >>
     ELSE IF ~IsStringList(content.elems)
     THEN /\ resp' = Resp("upload_list", "500", c)
          /\ UNCHANGED << lists, files >>
     ELSE /\ lists' = [lists EXCEPT ![c] =
                         [exists |-> TRUE, items |-> StringsOf(content.elems)]]
          /\ files' = [files EXCEPT ![CustomerDbPath(c)] = initialize_customer_files(@)]
          /\ resp' = Resp("upload_list", "200", c)
  /\ upload_content' = content
  /\ calls' = NoCalls
  /\ ClearRun
  /\ last_decision' = NoDecision
  /\ UNCHANGED program

\* A run handler that goes on without looking at the customer's list.
process_invoice_unguarded(c, ioerr, ocr_ok, llm) ==
  /\ program = "api"
  /\ pc = "serving"
  /\ pc' = "responded"
  /\ IF c = ""
     THEN /\ resp' = Resp("process_invoice", "400", c)
          /\ calls' = NoCalls
          /\ ClearRun
          /\ UNCHANGED files
     ELSE LET loaded == customer_load_confirmed_mappings(files[CustomerDbPath(c)], ioerr)
              parts == filter_results(llm.mapped_items, loaded.mem, << >>, << >>)
          IN  /\ files' = [files EXCEPT ![CustomerDbPath(c)] = loaded.file]
              /\ calls' = [ocr |-> IF loaded.ok THEN 1 ELSE 0,
                           llm |-> IF loaded.ok /\ ocr_ok THEN 1 ELSE 0]
              /\ IF loaded.ok /\ ocr_ok /\ llm.ok
                 THEN /\ confirmed_mappings' = loaded.mem
                      /\ mapping_response' = llm.mapped_items
                      /\ auto_confirmed_items' = parts.auto
                      /\ items_to_review' = parts.review
                      /\ idx' = 0
                      /\ resp' = Resp("process_invoice", "200", c)
                 ELSE /\ ClearRun
                      /\ resp' = Resp("process_invoice", "500", c)
  /\ last_decision' = NoDecision
  /\ upload_content' = NoContent
  /\ UNCHANGED << program, lists >>

\* upload_list, lines 38-80.
upload_list(c, content) ==
  /\ program = "api"
  /\ pc = "serving"
  /\ pc' = "responded"
  /\ IF c = ""
     THEN /\ resp' = Resp("upload_list", "400", c)
          /\ UNCHANGED << lists, files >>
     ELSE IF content.root # "list"
     THEN /\ resp' = Resp("upload_list", "400", c)
          /\ UNCHANGED << lists, files >>
     ELSE IF ~IsStringList(content.elems)
     THEN /\ resp' = Resp("upload_list", "500", c)
          /\ UNCHANGED << lists, files >>
     ELSE /\ lists' = [lists EXCEPT ![c] =
                         [exists |-> TRUE, items |-> StringsOf(content.elems)]]
          /\ files' = [files EXCEPT ![CustomerDbPath(c)] = initialize_customer_files(@)]
          /\ resp' = Resp("upload_list", "200", c)
  /\ upload_content' = content
  /\ calls' = NoCalls
  /\ ClearRun
  /\ last_decision' = NoDecision
  /\ UNCHANGED program

\* process_invoice, lines 86-159.
process_invoice(c, ioerr, ocr_ok, llm) ==
  /\ program = "api"
  /\ pc = "serving"
  /\ pc' = "responded"
  /\ IF c = ""
     THEN /\ resp' = Resp("process_invoice", "400", c)
          /\ calls' = NoCalls
          /\ ClearRun
          /\ UNCHANGED files
     ELSE IF load_customer_list(c) = << >>
     THEN /\ resp' = Resp("process_invoice", "404", c)
          /\ calls' = NoCalls
          /\ ClearRun
          /\ UNCHANGED files
     ELSE LET loaded == customer_load_confirmed_mappings(files[CustomerDbPath(c)], ioerr)
              parts == filter_results(llm.mapped_items, loaded.mem, << >>, << >>)
          IN  /\ files' = [files EXCEPT ![CustomerDbPath(c)] = loaded.file]
              /\ calls' = [ocr |-> IF loaded.ok THEN 1 ELSE 0,
                           llm |-> IF loaded.ok /\ ocr_ok THEN 1 ELSE 0]
              /\ IF loaded.ok /\ ocr_ok /\ llm.ok
                 THEN /\ confirmed_mappings' = loaded.mem
                      /\ mapping_response' = llm.mapped_items
                      /\ auto_confirmed_items' = parts.auto
                      /\ items_to_review' = parts.review
                      /\ idx' = 0
                      /\ resp' = Resp("process_invoice", "200", c)
                 ELSE /\ ClearRun
                      /\ resp' = Resp("process_invoice", "500", c)
  /\ last_decision' = NoDecision
  /\ upload_content' = NoContent
  /\ UNCHANGED << program, lists >>

\* confirm_mapping, lines 165-196: no check of list_item against the
\* customer's list is made before the save.
confirm_mapping(c, invoice_item, list_item, ioerr, wr) ==
  /\ program = "api"
  /\ pc = "serving"
  /\ pc' = "responded"
  /\ IF c = "" \/ invoice_item = ""
     THEN /\ resp' = Resp("confirm_mapping", "400", c)
          /\ last_decision' = NoDecision
          /\ UNCHANGED files
     ELSE LET saved == customer_save_confirmed_mapping(files[CustomerDbPath(c)],
                                                       invoice_item, list_item, ioerr, wr)
          IN  /\ files' = [files EXCEPT ![CustomerDbPath(c)] = saved.file]
              /\ last_decision' = Decision("confirm_mapping", CustomerDbPath(c),
                                           invoice_item, list_item,
                                           IF saved.ok THEN "saved" ELSE "error")
              /\ resp' = Resp("confirm_mapping", IF saved.ok THEN "200" ELSE "500", c)
  /\ ClearRun
  /\ calls' = NoCalls
  /\ upload_content' = NoContent
  /\ UNCHANGED << program, lists >>

\* The handler returns: the response is sent and the request's locals are gone.
send_response ==
  /\ program = "api"
  /\ pc = "responded"
  /\ pc' = "serving"
  /\ ClearRun
  /\ last_decision' = NoDecision
  /\ resp' = Resp("none", "none", "")
  /\ calls' = NoCalls
  /\ upload_content' = NoContent
  /\ UNCHANGED << program, files, lists >>

\* An answer to the selection prompt touches the file only when it leads to
\* a save (lines 81-82 and 87-90): the outcomes of the file operations are
\* drawn for those answers alone.
SelectIos(answer, Ios) ==
  LET choice == Lower(answer)
  IN  IF choice = "n" \/ (IsInt(choice) /\ ValidIndex(ParseInt(choice)))
      THEN Ios
      ELSE { CHOOSE io \in Ios : TRUE }

\* The server: its handlers leave the variables of the studies alone.  (Each
\* disjunct repeats the guard of its handler ahead of the choice of inputs.)
ApiWith(Runs, Ios) ==
  \/ /\ program = "api" /\ pc = "serving"
     /\ \E c \in Customers \cup {""}, content \in UploadInputs :
          upload_list(c, content) /\ UNCHANGED study_vars
  \/ /\ program = "api" /\ pc = "serving"
     /\ \E c \in Customers \cup {""} : \E in \in RequestInputs(c, Runs) :
          process_invoice(c, in.ioerr, in.ocr_ok, in.llm) /\ UNCHANGED study_vars
  \/ /\ program = "api" /\ pc = "serving"
     /\ \E c \in Customers \cup {""}, k \in InvoiceTexts \cup {""},
           v \in ListItemInputs, io \in Ios :
          confirm_mapping(c, k, v, io.ioerr, io.wr) /\ UNCHANGED study_vars
  \/ send_response /\ UNCHANGED study_vars

\* The command line program: it serves no request.
CliWith(Runs, Ios) ==
  \/ /\ program = "cli" /\ pc = "ready"
     /\ \E in \in Runs :
          main(in.ioerr, in.ocr_ok, in.llm) /\ UNCHANGED << request_vars, study_vars >>
  \/ main_display /\ UNCHANGED << request_vars, study_vars >>
  \/ /\ program = "cli" /\ pc = "ask"
     /\ \E io \in Ios :
          loop_confirm(io.ioerr, io.wr) /\ UNCHANGED << request_vars, study_vars >>
  \/ loop_reject /\ UNCHANGED << request_vars, study_vars >>
  \/ loop_skip /\ UNCHANGED << request_vars, study_vars >>
  \/ /\ program = "cli" /\ pc = "select"
     /\ \E answer \in Choices : \E io \in SelectIos(answer, Ios) :
          loop_select(answer, io.ioerr, io.wr) /\ UNCHANGED << request_vars, study_vars >>

Next == CliWith(RunInputs, IoOutcomes) \/ ApiWith(RunInputs, IoOutcomes)

Spec == Init /\ [][Next]_vars

\* The server alone, with the same failures.
SpecApi == Init /\ [][ApiWith(RunInputs, IoOutcomes)]_vars

\* ----------------------------------------- core_mapper.py: _parse_response
\* A completion text: an optional Markdown fence around a document.  The
\* document is JSON with an object, or an array, at its root, or is not JSON;
\* an item of "mapped_items" gives each field a JSON value or leaves it out.
RawItem(k, s) == [invoice_item |-> k, suggested_menu_dish |-> s]

RawItems ==
  { RawItem(JStr(k), s) : k \in InvoiceTexts, s \in {JStr(RESTAURANT_MENU[1]), JNull} }
    \cup { RawItem(JMissing, JNull), RawItem(JNum("42"), JNull),
           RawItem(JStr("Tomatoes (5kg)"), JMissing) }

Garbage == [kind |-> "garbage", mapped_items |-> << >>]

JsonDocs ==
  { [kind |-> "object", mapped_items |-> s] : s \in SeqsUpTo(RawItems, MaxItems) }
    \cup { Garbage,
           [kind |-> "array", mapped_items |-> << >>],
           [kind |-> "object_without_mapped_items", mapped_items |-> << >>] }

\* fence: "none"; "json", opened by ```json and closed by ```; "json_open",
\* opened by ```json and not closed; "plain", fenced by ``` alone.
Completions ==
  { [fence |-> f, doc |-> d] : f \in {"none", "json"}, d \in JsonDocs }
    \cup { [fence |-> f, doc |-> [kind |-> "object", mapped_items |-> << >>]] :
             f \in {"json_open", "plain"} }

\* Lines 198-199: a text starting with ```json loses its first seven and its
\* last three characters, which cuts the end of a document no fence closes.
StripFence(text) ==
  IF text.fence = "json" THEN [text EXCEPT !.fence = "none"]
  ELSE IF text.fence = "json_open" THEN [fence |-> "none", doc |-> Garbage]
  ELSE text

\* Line 200, json.loads: fails on a fence left in place and on non-JSON.
json_loads(text) ==
  IF text.fence # "none" \/ text.doc.kind = "garbage"
  THEN [ok |-> FALSE, data |-> Garbage]
  ELSE [ok |-> TRUE, data |-> text.doc]

\* Lines 54-57, MappedItem: invoice_item is a required string,
\* suggested_menu_dish a required string or null.
ItemConforms(it) ==
  /\ it.invoice_item.t = "str"
  /\ it.suggested_menu_dish.t \in {"str", "null"}

FromRaw(it) ==
  MappedItem(it.invoice_item.v,
             IF it.suggested_menu_dish.t = "null" THEN NULL ELSE it.suggested_menu_dish.v)

\* A parse that keeps the conforming items of a completion and drops the rest.
RECURSIVE KeepConforming(_)
KeepConforming(raw) ==
  IF raw = << >> THEN << >>
  ELSE IF ItemConforms(Head(raw)) THEN << FromRaw(Head(raw)) >> \o KeepConforming(Tail(raw))
  ELSE KeepConforming(Tail(raw))

_parse_response_lenient(text) ==
  LET loaded == json_loads(StripFence(text))
  IN  IF ~loaded.ok \/ loaded.data.kind # "object" THEN LlmFailed
      ELSE [ok |-> TRUE, mapped_items |-> KeepConforming(loaded.data.mapped_items)]

\* _parse_response, lines 190-205: strip, json.loads, InvoiceMappingResponse(**data);
\* every exception is logged and raised again.
_parse_response(text) ==
  LET loaded == json_loads(StripFence(text))
  IN  IF ~loaded.ok THEN LlmFailed
      ELSE IF loaded.data.kind # "object" THEN LlmFailed
      ELSE LET raw == loaded.data.mapped_items
           IN  IF \E i \in 1 .. Len(raw) : ~ItemConforms(raw[i]) THEN LlmFailed
               ELSE [ok |-> TRUE, mapped_items |-> [i \in 1 .. Len(raw) |-> FromRaw(raw[i])]]

\* call_openai_for_mapping, lines 207-238: the API call raises, or its text
\* goes to _parse_response.
call_openai_for_mapping(api_ok, text) ==
  IF api_ok THEN _parse_response(text) ELSE LlmFailed

\* The command line program fed with completion texts, on a file system that
\* works.  The text is kept from the call to the display of the tables and,
\* when the parse fails, in the log of the process that exits.
CliParsing ==
  \/ /\ program = "cli" /\ pc = "ready"
     /\ response_text = NoText
     /\ \E api_ok \in BOOLEAN, text \in Completions :
          /\ main(FALSE, TRUE, call_openai_for_mapping(api_ok, text))
          /\ response_text' = IF api_ok THEN text ELSE NoText
          /\ UNCHANGED << request_vars, handled, pending_saves, workers, events >>
  \/ /\ main_display
     /\ response_text' = NoText
     /\ UNCHANGED << request_vars, handled, pending_saves, workers, events >>
  \/ \E io \in ReliableIoOutcomes :
       loop_confirm(io.ioerr, io.wr) /\ UNCHANGED << request_vars, study_vars >>
  \/ loop_reject /\ UNCHANGED << request_vars, study_vars >>
  \/ loop_skip /\ UNCHANGED << request_vars, study_vars >>
  \/ \E answer \in Choices, io \in ReliableIoOutcomes :
       loop_select(answer, io.ioerr, io.wr) /\ UNCHANGED << request_vars, study_vars >>

SpecParse == Init /\ [][CliParsing]_vars

\* ------------------------------- cli.py: the confirmation loop, item by item
MaxSaves == 2

\* A step of the loop that calls save_confirmed_mapping (lines 70, 82, 89).
SaveCalled ==
  /\ ~(pc = "ask" /\ pc' = "select")
  /\ last_decision'.kind \in {"Confirm", "Correct", "NoMatch"}

\* A step of the loop after which the for loop is done with the item at idx.
ItemLeft == idx' # idx \/ pc' = "ready"

\* What a step of the loop adds to the record of the run: the saves made for
\* the item in hand and, when the loop leaves it, its place, the decision
\* that ended it and the number of its saves.
Observe ==
  LET n == IF SaveCalled THEN 1 ELSE 0
      saves == IF pending_saves + n > MaxSaves THEN MaxSaves ELSE pending_saves + n
  IN  IF ItemLeft
      THEN /\ handled' = Append(handled, [pos |-> idx, state |-> last_decision'.kind,
                                          saves |-> saves])
           /\ pending_saves' = 0
      ELSE /\ handled' = handled
           /\ pending_saves' = saves

\* The command line program with the record of its confirmation loop.
CliLoop(Runs, Ios) ==
  \/ /\ program = "cli" /\ pc = "ready"
     /\ \E in \in Runs :
          /\ main(in.ioerr, in.ocr_ok, in.llm)
          /\ handled' = << >>
          /\ pending_saves' = 0
          /\ UNCHANGED << request_vars, response_text, workers, events >>
  \/ main_display /\ UNCHANGED << request_vars, study_vars >>
  \/ \E io \in Ios :
       /\ loop_confirm(io.ioerr, io.wr)
       /\ Observe
       /\ UNCHANGED << request_vars, response_text, workers, events >>
  \/ /\ loop_reject
     /\ Observe
     /\ UNCHANGED << request_vars, response_text, workers, events >>
  \/ /\ loop_skip
     /\ Observe
     /\ UNCHANGED << request_vars, response_text, workers, events >>
  \/ \E answer \in Choices : \E io \in SelectIos(answer, Ios) :
       /\ loop_select(answer, io.ioerr, io.wr)
       /\ Observe
       /\ UNCHANGED << request_vars, response_text, workers, events >>

\* The saves of the loop are counted as calls, whatever becomes of the file:
\* the runs keep their failing reads, the saves are given a disk that works.
SpecLoop == Init /\ [][CliLoop(RunInputs, ReliableIoOutcomes)]_vars

\* ------------------------- app.py: two confirm_mapping requests at a time
\* The server handles each request in a thread of its own.  A request that
\* passed the checks of lines 175-184 calls the customer's save_one, which
\* reads the whole memory, sets one key and writes the whole memory back,
\* with no lock between the two (specification 4.1 and 5).
Workers == {1, 2}

rest_vars ==
  << program, lists, pc, confirmed_mappings, mapping_response, auto_confirmed_items,
     items_to_review, idx, last_decision, resp, calls, upload_content,
     response_text, handled, pending_saves >>

\* Lines 175-186: the request is received and save_confirmed_mapping is called.
confirm_mapping_begin(w, c, k, v) ==
  /\ program = "api"
  /\ workers[w].pc = "none"
  /\ workers' = [workers EXCEPT ![w] =
                   [pc |-> "called", c |-> c, k |-> k, v |-> v,
                    mappings |-> EmptyMap, status |-> "none"]]
  /\ UNCHANGED << files, events, rest_vars >>

\* A save_one that starts from an empty memory whatever it has read.
save_read_fresh(w, ioerr) ==
  /\ workers[w].pc = "called"
  /\ LET me == workers[w]
         loaded == customer_load_confirmed_mappings(files[CustomerDbPath(me.c)], ioerr)
     IN  /\ files' = [files EXCEPT ![CustomerDbPath(me.c)] = loaded.file]
         /\ workers' = [workers EXCEPT ![w] =
                          IF loaded.ok
                          THEN [me EXCEPT !.pc = "loaded",
                                          !.mappings = Upsert(EmptyMap, me.k, me.v)]
                          ELSE [me EXCEPT !.pc = "done", !.status = "500"]]
  /\ events' = Append(events, [w |-> w, op |-> "read"])
  /\ UNCHANGED rest_vars

\* save_one, first half: load the memory and set the key in the copy read;
\* a read failure is reported (the handler answers 500).
save_read(w, ioerr) ==
  /\ workers[w].pc = "called"
  /\ LET me == workers[w]
         loaded == customer_load_confirmed_mappings(files[CustomerDbPath(me.c)], ioerr)
     IN  /\ files' = [files EXCEPT ![CustomerDbPath(me.c)] = loaded.file]
         /\ workers' = [workers EXCEPT ![w] =
                          IF loaded.ok
                          THEN [me EXCEPT !.pc = "loaded",
                                          !.mappings = Upsert(loaded.mem, me.k, me.v)]
                          ELSE [me EXCEPT !.pc = "done", !.status = "500"]]
  /\ events' = Append(events, [w |-> w, op |-> "read"])
  /\ UNCHANGED rest_vars

\* save_one, second half: persist the copy as a unit; a write failure leaves
\* the record as it was and is reported.  Lines 187-196: the answer.
save_write(w, wr) ==
  /\ workers[w].pc = "loaded"
  /\ LET me == workers[w]
     IN  /\ files' = [files EXCEPT ![CustomerDbPath(me.c)] =
                        IF wr = "ok" THEN OkFile(me.mappings) ELSE @]
         /\ workers' = [workers EXCEPT ![w] =
                          [me EXCEPT !.pc = "done",
                                     !.status = IF wr = "ok" THEN "200" ELSE "500"]]
  /\ events' = Append(events, [w |-> w, op |-> "write"])
  /\ UNCHANGED rest_vars

ApiConcurrent ==
  \/ \E w \in Workers, c \in Customers, k \in InvoiceTexts, v \in ListItemInputs :
       confirm_mapping_begin(w, c, k, v)
  \/ \E w \in Workers, ioerr \in BOOLEAN : save_read(w, ioerr)
  \/ \E w \in Workers, wr \in WriteOutcomes : save_write(w, wr)

SpecConcurrent == Init /\ [][ApiConcurrent]_vars

\* The two programs on a file system whose reads and writes never fail.
NextReliable ==
  CliWith(ReliableRunInputs, ReliableIoOutcomes)
    \/ ApiWith(ReliableRunInputs, ReliableIoOutcomes)

SpecReliable == Init /\ [][NextReliable]_vars

\* ------------------------------------------------------------ properties
\* The memory a successful read of the file at path p returns.
Stored(f, p) == load_confirmed_mappings(f[p], FALSE)

Range(s) == { s[i] : i \in 1 .. Len(s) }

Occurrences(s, x) == Cardinality({ i \in 1 .. Len(s) : s[i] = x })

KeyOccurrences(s, k) == Cardinality({ i \in 1 .. Len(s) : s[i].invoice_item = k })

WritingKinds == {"Confirm", "Correct", "NoMatch", "confirm_mapping"}

\* A step in which save_one is called and returns normally to its caller.
SaveCompletes ==
  \/ /\ program = "cli"
     /\ pc \in {"ask", "select"}
     /\ pc' \in {"ask", "ready"}
     /\ last_decision'.kind \in WritingKinds
  \/ /\ program = "api"
     /\ pc = "serving"
     /\ resp'.op = "confirm_mapping"
     /\ resp'.status = "200"

\* A state showing the outcome of a run's reconciliation.
RunClassified ==
  \/ program = "cli" /\ pc \in {"classified", "ask", "select"}
  \/ program = "api" /\ pc = "responded" /\ resp.op = "process_invoice" /\ resp.status = "200"

\* C1: after save_one(customer, k, v) completes, load returns a memory in
\* which k maps to v and every key present before the call still has its
\* previous value.
C1_SaveThenLoad ==
  [][ SaveCompletes =>
        LET d == last_decision'
            before == Stored(files, d.path)
            after == Stored(files', d.path)
        IN  /\ d.k \in DOMAIN after
            /\ after[d.k] = d.v
            /\ \A j \in DOMAIN before \ {d.k} : j \in DOMAIN after /\ after[j] = before[j]
    ]_vars

\* C2: every item of the model output whose invoice_item is a key k of the
\* memory loaded for the run, with value v, is in auto_confirmed (and not in
\* needs_review) with suggested item v, whatever the model proposed.
C2_Override ==
  RunClassified =>
    \A k \in DOMAIN confirmed_mappings :
      /\ KeyOccurrences(auto_confirmed_items, k) = KeyOccurrences(mapping_response, k)
      /\ KeyOccurrences(items_to_review, k) = 0
      /\ \A j \in 1 .. Len(auto_confirmed_items) :
           auto_confirmed_items[j].invoice_item = k
             => auto_confirmed_items[j].suggested_item = confirmed_mappings[k]

\* C2 witness: the server answers a run in which an item the model mapped to
\* a dish is auto-confirmed with the null the memory holds for it.
C2_Witness ==
  /\ RunClassified
  /\ program = "api"
  /\ \E i \in 1 .. Len(mapping_response) :
       LET it == mapping_response[i]
       IN  /\ it.invoice_item \in DOMAIN confirmed_mappings
           /\ confirmed_mappings[it.invoice_item] = NULL
           /\ it.suggested_item # NULL
           /\ MappedItem(it.invoice_item, NULL) \in Range(auto_confirmed_items)

\* C3: every item of the model output whose invoice_item is not a key of the
\* memory (exact, case-sensitive comparison) is in needs_review (and not in
\* auto_confirmed) with the suggestion the validator produced.
C3_Complement ==
  RunClassified =>
    \A it \in Range(mapping_response) :
      it.invoice_item \notin DOMAIN confirmed_mappings =>
        /\ Occurrences(items_to_review, it) = Occurrences(mapping_response, it)
        /\ KeyOccurrences(auto_confirmed_items, it.invoice_item) = 0

\* C3 witness: the command line run puts an item in needs_review, unchanged,
\* while the memory holds a key that differs from the item's text in case only.
C3_Witness ==
  /\ RunClassified
  /\ program = "cli"
  /\ \E it \in Range(items_to_review) :
       /\ it.invoice_item \notin DOMAIN confirmed_mappings
       /\ it.suggested_item # NULL
       /\ \E m \in DOMAIN confirmed_mappings : CaseFold(m) = CaseFold(it.invoice_item)

\* C4: once a Confirm, a valid Correct or a Mark-No-Match has been applied to
\* invoice_item k, a later run (no other decision having been applied since)
\* whose model output holds k classifies it auto_confirmed with the decided
\* value.
C4_FeedbackLoop ==
  (program = "cli" /\ pc = "classified" /\ last_decision.kind \in {"Confirm", "Correct", "NoMatch"})
    => LET k == last_decision.k
       IN  /\ KeyOccurrences(auto_confirmed_items, k) = KeyOccurrences(mapping_response, k)
           /\ \A j \in 1 .. Len(auto_confirmed_items) :
                auto_confirmed_items[j].invoice_item = k
                  => auto_confirmed_items[j].suggested_item = last_decision.v

\* A confirm-mapping request that names a list_item outside the reference
\* list the customer has uploaded.
InvalidTargetRequest ==
  /\ program = "api"
  /\ pc = "serving"
  /\ resp'.customer_id \in Customers
  /\ load_customer_list(resp'.customer_id) # << >>
  /\ resp'.op = "confirm_mapping"
  /\ last_decision'.kind = "confirm_mapping"
  /\ last_decision'.v # NULL
  /\ last_decision'.v \notin Range(load_customer_list(resp'.customer_id))

\* C5: a Correct(target) whose target is not in the customer's reference list
\* is rejected and writes nothing, in the confirmation loop and in
\* confirm-mapping alike.
C5_InvalidTargetRejected ==
  [][ /\ (program = "cli" /\ last_decision'.kind = "Correct")
           => last_decision'.v \in Range(RESTAURANT_MENU)
      /\ (program = "cli" /\ pc = "select" /\ last_decision'.kind = "Retry")
           => (pc' = "select" /\ files' = files)
      /\ InvalidTargetRequest
           => /\ resp'.status # "200"
              /\ \A p \in Paths : Stored(files', p) = Stored(files, p)
    ]_vars

\* A step of the confirmation loop that skips the item.
SkipStep ==
  /\ program = "cli"
  /\ pc = "ask"
  /\ pc' \in {"ask", "ready"}
  /\ last_decision'.kind = "Skip"

\* A run that reconciles, the last decision applied before it being a Skip.
RunAfterSkip ==
  /\ program = "cli"
  /\ pc = "ready"
  /\ pc' = "classified"
  /\ last_decision.kind = "Skip"

SkippedResurfaces ==
  /\ KeyOccurrences(items_to_review, last_decision.k)
       = KeyOccurrences(mapping_response, last_decision.k)
  /\ KeyOccurrences(auto_confirmed_items, last_decision.k) = 0

\* C6 as stated: a Skip leaves the memory unchanged, and the next run whose
\* model output holds the skipped text classifies it needs_review again.
C6_SkipResurfaces ==
  [][ /\ SkipStep => files' = files
      /\ RunAfterSkip => SkippedResurfaces'
    ]_vars

\* C6 amended: a Skip leaves the memory unchanged, and the next run whose
\* model output holds the skipped text classifies it needs_review again
\* whenever the persisted memory holds no entry for that text when the run
\* starts (an entry exists when another occurrence of the same text was
\* confirmed, corrected or marked no-match before the skip).
C6_SkipResurfacesUnlessStored ==
  [][ /\ SkipStep => files' = files
      /\ (RunAfterSkip /\ last_decision.k \notin DOMAIN Stored(files, DB_FILE))
           => SkippedResurfaces'
    ]_vars

\* C6 witness: a run has put in needs_review the text that the last decision
\* before it skipped.
C6_Witness ==
  /\ program = "cli"
  /\ pc = "classified"
  /\ last_decision.kind = "Skip"
  /\ KeyOccurrences(items_to_review, last_decision.k) > 0

\* C7: an upload of a reference list leaves every customer's mapping memory
\* as it was (so do two uploads in a row).
C7_UploadKeepsMemory ==
  [][ (program = "api" /\ pc = "serving" /\ resp'.op = "upload_list")
        => \A c \in Customers :
             Stored(files', CustomerDbPath(c)) = Stored(files, CustomerDbPath(c))
    ]_vars

\* C7 witness: a list has just replaced an earlier, different list of a
\* customer whose memory is not empty.
C7_Witness ==
  /\ program = "api"
  /\ pc = "responded"
  /\ resp.op = "upload_list"
  /\ resp.status = "200"
  /\ Len(lists[resp.customer_id].items) = 2
  /\ Stored(files, CustomerDbPath(resp.customer_id)) # EmptyMap

\* C8: a save for customer A leaves the memory of every other customer B as
\* it was, and a run for B classifies by B's memory alone: a key absent from
\* B's memory is needs_review whatever A's memory holds.
C8_Isolation ==
  [][ /\ (program = "api" /\ pc = "serving" /\ resp'.op = "confirm_mapping")
           => \A b \in Customers \ {resp'.customer_id} :
                Stored(files', CustomerDbPath(b)) = Stored(files, CustomerDbPath(b))
      /\ (program = "api" /\ pc = "serving" /\ resp'.op = "process_invoice"
            /\ resp'.status = "200")
           => \A it \in Range(mapping_response') :
                it.invoice_item \notin DOMAIN Stored(files, CustomerDbPath(resp'.customer_id))
                  => /\ Occurrences(items_to_review', it) = Occurrences(mapping_response', it)
                     /\ KeyOccurrences(auto_confirmed_items', it.invoice_item) = 0
    ]_vars

\* C8 witness: a run for one customer leaves in needs_review a text that the
\* memory of the other customer holds.
C8_Witness ==
  /\ RunClassified
  /\ program = "api"
  /\ \E b \in Customers \ {resp.customer_id} :
       \E it \in Range(items_to_review) :
         it.invoice_item \in DOMAIN Stored(files, CustomerDbPath(b))

\* C9: a caller that is told a mapping was saved finds it persisted; a failed
\* write is reported, never shown as a success.
C9_FailureReported ==
  last_decision.reported = "saved" =>
    LET m == Stored(files, last_decision.path)
    IN  last_decision.k \in DOMAIN m /\ m[last_decision.k] = last_decision.v

\* A step that ends a run in failure.
RunFails ==
  \/ program = "cli" /\ pc = "ready" /\ resp'.op = "main" /\ resp'.status = "failed"
  \/ /\ program = "api"
     /\ pc = "serving"
     /\ resp'.op = "process_invoice"
     /\ resp'.status # "200"

\* C10: a run that fails (no list, OCR failure, LLM failure, malformed
\* completion) leaves every mapping memory and every reference list as it was.
C10_FailedRunNoEffect ==
  [][ RunFails => (files' = files /\ lists' = lists) ]_vars

\* C10 witness: a run has failed while the memory held a mapping.
C10_Witness ==
  /\ program = "cli"
  /\ pc = "ready"
  /\ resp.op = "main"
  /\ resp.status = "failed"
  /\ Stored(files, DB_FILE) # EmptyMap

\* C11: save_one is idempotent and the last value wins: a save_one of (k, v)
\* made right after a save_one of the same key leaves the memory the first
\* call left when the value is the same, and in every case leaves k mapped to
\* the value of the last call with every other key as it was.
C11_Idempotent ==
  [][ ( /\ SaveCompletes
        /\ last_decision.kind \in WritingKinds
        /\ last_decision.path = last_decision'.path
        /\ last_decision.k = last_decision'.k )
        => LET d == last_decision'
               once == Stored(files, d.path)
               twice == Stored(files', d.path)
           IN  /\ last_decision.v = d.v => twice = once
               /\ twice = Upsert(once, d.k, d.v)
    ]_vars

\* The run's model output restricted to the items whose key the memory holds
\* (keep = TRUE) or does not hold (keep = FALSE), in the order of the output.
RECURSIVE Restrict(_, _, _)
Restrict(items, mem, keep) ==
  IF items = << >> THEN << >>
  ELSE LET rest == Restrict(Tail(items), mem, keep)
       IN  IF (Head(items).invoice_item \in DOMAIN mem) = keep
           THEN << Head(items) >> \o rest ELSE rest

KeysOf(items) == [i \in 1 .. Len(items) |-> items[i].invoice_item]

\* C15: reconciliation is a stable partition: the items of the model output
\* are split between auto_confirmed and needs_review, each item in exactly
\* one of the two and exactly once, and each output keeps the order the items
\* had in the model output.
C15_StablePartition ==
  RunClassified =>
    /\ Len(auto_confirmed_items) + Len(items_to_review) = Len(mapping_response)
    /\ KeysOf(auto_confirmed_items)
         = KeysOf(Restrict(mapping_response, confirmed_mappings, TRUE))
    /\ items_to_review = Restrict(mapping_response, confirmed_mappings, FALSE)

\* C15 witness: a run whose two items, of different keys, are both
\* auto-confirmed from the memory, so that their order can be told.
C15_Witness ==
  /\ RunClassified
  /\ Len(mapping_response) = 2
  /\ Len(auto_confirmed_items) = 2
  /\ auto_confirmed_items[1].invoice_item # auto_confirmed_items[2].invoice_item

\* C17: a read failure of the store is surfaced and never taken for an empty
\* memory: a run that finds an unparsable mapping file fails instead of
\* classifying, and a save_one that leaves a readable file keeps every key
\* the file held before the call.
C17_ReadFailureSurfaced ==
  [][ /\ (program = "cli" /\ pc = "ready" /\ files[DB_FILE].st = "corrupt")
           => pc' # "classified"
      /\ (program = "cli" /\ SaveCompletes /\ files'[DB_FILE].st = "ok")
           => DOMAIN Stored(files, DB_FILE) \subseteq DOMAIN Stored(files', DB_FILE)
    ]_vars

\* C13: a run requested for a customer who has no reference list is answered
\* 404 at once: OCR and the LLM are not called, nothing is retried, and the
\* stored lists and mapping files are what they were.
C13_NoListRefused ==
  [][ ( /\ program = "api"
        /\ pc = "serving"
        /\ resp'.op = "process_invoice"
        /\ resp'.customer_id \in Customers
        /\ ~lists[resp'.customer_id].exists )
        => /\ resp'.status = "404"
           /\ pc' = "responded"
           /\ calls' = NoCalls
           /\ files' = files
           /\ lists' = lists
           /\ mapping_response' = << >>
           /\ auto_confirmed_items' = << >>
           /\ items_to_review' = << >>
    ]_vars

\* C13 witness: the server has answered 404 to a customer without a list
\* while another customer has a list and a mapping memory.
C13_Witness ==
  /\ program = "api"
  /\ pc = "responded"
  /\ resp.op = "process_invoice"
  /\ resp.status = "404"
  /\ resp.customer_id \in Customers
  /\ ~lists[resp.customer_id].exists
  /\ calls = NoCalls
  /\ \E o \in Customers \ {resp.customer_id} :
       lists[o].exists /\ Stored(files, CustomerDbPath(o)) # EmptyMap

\* An uploaded JSON value that is not a flat list of strings.
NotFlatStringList(content) ==
  \/ content.root # "list"
  \/ \E i \in 1 .. Len(content.elems) : content.elems[i].t # "str"

WellFormed(text) ==
  /\ text.fence \in {"none", "json"}
  /\ text.doc.kind = "object"
  /\ \A i \in 1 .. Len(text.doc.mapped_items) :
       LET it == text.doc.mapped_items[i]
       IN  /\ it.invoice_item.t = "str"
           /\ it.suggested_menu_dish.t # "missing"
           /\ it.suggested_menu_dish.t # "num"

\* C12: parsing is all-or-nothing: when the completion text is not JSON or
\* not of the required shape the run fails, and no item of the completion is
\* in the model output, in auto_confirmed or in needs_review; when the text
\* is well formed the model output has one item for each item of the text.
C12_AllOrNothing ==
  response_text # NoText =>
    IF WellFormed(response_text)
    THEN /\ pc = "classified"
         /\ Len(mapping_response) = Len(response_text.doc.mapped_items)
         /\ \A i \in 1 .. Len(mapping_response) :
              mapping_response[i].invoice_item = response_text.doc.mapped_items[i].invoice_item.v
    ELSE /\ pc = "ready"
         /\ resp = Resp("main", "failed", "")
         /\ mapping_response = << >>
         /\ auto_confirmed_items = << >>
         /\ items_to_review = << >>

\* C12 witness: a run has failed on a completion that holds a conforming item
\* whose key the memory knows, next to an item without invoice_item.
C12_Witness ==
  /\ response_text # NoText
  /\ ~WellFormed(response_text)
  /\ response_text.doc.kind = "object"
  /\ \E i, j \in 1 .. Len(response_text.doc.mapped_items) :
       LET a == response_text.doc.mapped_items[i]
           b == response_text.doc.mapped_items[j]
       IN  /\ a.invoice_item.t = "str"
           /\ a.suggested_menu_dish.t = "str"
           /\ a.invoice_item.v \in DOMAIN Stored(files, DB_FILE)
           /\ b.invoice_item.t = "missing"
  /\ pc = "ready"
  /\ mapping_response = << >>

\* The record of the loop: the items left so far are the first items of
\* needs_review, each recorded once and in order, each ended by one of the
\* four decisions, with one save unless skipped; the item in hand has none.
LoopRecord ==
  /\ \A i \in 1 .. Len(handled) :
       /\ handled[i].pos = i
       /\ handled[i].state \in {"Confirm", "Correct", "NoMatch", "Skip"}
       /\ handled[i].saves = IF handled[i].state = "Skip" THEN 0 ELSE 1
  /\ pc \in {"ask", "select"} => Len(handled) = idx - 1 /\ pending_saves = 0

\* C18: in one run of the confirmation loop the needs-review items are taken
\* one at a time in sequence order; each leaves Pending once, for Confirmed,
\* Corrected, Marked-No-Match or Skipped, and is not taken again; it causes
\* one save_one call, or none when skipped; and when the loop ends every
\* item has been taken.
C18_OneAtATime ==
  [][ program = "cli" =>
        /\ LoopRecord'
        /\ (pc \in {"ask", "select"} /\ pc' = "ready")
             => Len(handled') = Len(items_to_review)
        /\ (pc \in {"ask", "select"} /\ ~SaveCalled) => files' = files
    ]_vars

\* C18 witness: a run has ended after a first item that was rejected and then
\* corrected or marked as having no match, and a second item that was skipped.
C18_Witness ==
  /\ program = "cli"
  /\ pc = "ready"
  /\ Len(handled) = 2
  /\ handled[1].state \in {"Correct", "NoMatch"}
  /\ handled[1].saves = 1
  /\ handled[2].state = "Skip"
  /\ handled[2].saves = 0

\* Two requests for the same customer and different keys have both been
\* answered 200.
BothSaved ==
  /\ \A w \in Workers : workers[w].pc = "done" /\ workers[w].status = "200"
  /\ workers[1].c = workers[2].c
  /\ workers[1].k # workers[2].k

\* Both calls read the memory before either wrote it.
Interleaved == Len(events) >= 2 /\ events[1].op = "read" /\ events[2].op = "read"

KeySaved(w) ==
  LET mem == Stored(files, CustomerDbPath(workers[w].c))
  IN  workers[w].k \in DOMAIN mem /\ mem[workers[w].k] = workers[w].v

\* C16: two save_one calls for the same customer and different keys, both
\* answered without an error: when one call ends before the other reads,
\* both keys are in the memory; in every case the key of the call that
\* wrote last is.  (The interleaved run that loses a key is the witness.)
C16_SingleWriterKeepsBoth ==
  BothSaved =>
    /\ ~Interleaved => KeySaved(1) /\ KeySaved(2)
    /\ KeySaved(events[Len(events)].w)

\* C16 witness: both calls read before either wrote, both were answered 200,
\* and the memory holds the key of one of them only.
C16_Witness ==
  /\ BothSaved
  /\ Interleaved
  /\ KeySaved(1) # KeySaved(2)
  /\ Cardinality(DOMAIN Stored(files, CustomerDbPath(workers[1].c))) = 1

====
